---- MODULE Spec2Model ----
(***************************************************************************)
(* Model of new/lib/helpers.py: the command executor (execute), the line   *)
(* reassembler (TerminalLineBuffer) and the logging set-up it relies on.   *)
(*                                                                         *)
(* Bytes are integers 0..255; a bytes object is a sequence of them.  Text  *)
(* (a Python str) is a sequence of code points.  An optional value is the  *)
(* empty sequence (None) or a one-element sequence.                        *)
(***************************************************************************)
EXTENDS Integers, Sequences, FiniteSets, TLC

VARIABLES
    \* ---- process-wide logging state
    handlers,          \* logging.getLogger().handlers
    root_level,        \* level of the root logger
    setup_calls,       \* names given to setup_logging() so far, in order
    logged,            \* levels of the records logged through the root logger
    delivered,         \* (record, handler) pairs: record emitted by handler
    \* ---- one execute() call
    pc,                \* position of the caller inside execute()
    passthrough,       \* argument
    timeout,           \* argument: None or <<seconds>>
    passthrough_prefix,\* argument: None or <<text>>
    file_log_handler,  \* local: None or <<handler>>
    deadline,          \* local (passthrough) / endtime of wait(): None or <<t>>
    returncode,        \* process.returncode: None or <<code>>
    outcome,           \* what the call gave its caller
    \* ---- TerminalLineBuffer instance
    line_buffer,       \* self.line_buffer
    last_value,        \* self.last_value: None (never set) or <<bytes>>
    \* ---- the environment: child process, pipe, terminal, file sink, clock
    program,           \* bytes the child is going to write, and its exit code
    child,             \* "none", "running", "exited", "killed"
    widx,              \* number of bytes the child has written so far
    pipe,              \* bytes written by the child and not yet read
    term,              \* bytes written to sys.stdout.buffer
    records,           \* records handled by the rotating-file sink
    now,               \* monotonic clock
    \* ---- line reassembler driven on its own
    input,             \* byte sequence given to the reassembler
    pos,               \* bytes of input fed so far
    lines,             \* lines returned by get_line(), in order
    fed,               \* every byte string fed so far
    completions,       \* number of feeds after which is_complete() was true
    lastOp,            \* "new", "feed", "get_line"
    raised             \* get_line() raised a decode error

vars == <<handlers, root_level, setup_calls, logged, delivered, pc, passthrough, timeout, passthrough_prefix,
          file_log_handler, deadline, returncode, outcome, line_buffer,
          last_value, program, child, widx, pipe, term, records, now,
          input, pos, lines, fed, completions, lastOp, raised>>

\* ------------------------------------------------------------------------
\* Bounds of the model
MaxOut == 3        \* longest child output, in bytes
MaxTime == 2       \* last instant of the clock
MaxLen == 4        \* longest input of the reassembler driven on its own
MaxOps == 4        \* longest free sequence of feed()/get_line() calls

None == <<>>
Some(x) == <<x>>

LF == 10
CR == 13
ESC == 27

\* ------------------------------------------------------------------------
\* bytes.decode("utf-8"), strict
Continuation(bs, i) == i <= Len(bs) /\ bs[i] \in 128..191

RECURSIVE DecodeFrom(_, _, _)
DecodeFrom(bs, i, acc) ==
    IF i > Len(bs) THEN [ok |-> TRUE, text |-> acc]
    ELSE LET b == bs[i] IN
      IF b < 128 THEN DecodeFrom(bs, i + 1, Append(acc, b))
      ELSE IF b \in 194..223 /\ Continuation(bs, i + 1)
        THEN DecodeFrom(bs, i + 2,
                 Append(acc, (b - 192) * 64 + (bs[i + 1] - 128)))
      ELSE IF /\ b \in 224..239
              /\ Continuation(bs, i + 1) /\ Continuation(bs, i + 2)
              /\ (b = 224 => bs[i + 1] >= 160)
              /\ (b = 237 => bs[i + 1] <= 159)
        THEN DecodeFrom(bs, i + 3,
                 Append(acc, (b - 224) * 4096 + (bs[i + 1] - 128) * 64
                             + (bs[i + 2] - 128)))
      ELSE IF /\ b \in 240..244
              /\ Continuation(bs, i + 1) /\ Continuation(bs, i + 2)
              /\ Continuation(bs, i + 3)
              /\ (b = 240 => bs[i + 1] >= 144)
              /\ (b = 244 => bs[i + 1] <= 143)
        THEN DecodeFrom(bs, i + 4,
                 Append(acc, (b - 240) * 262144 + (bs[i + 1] - 128) * 4096
                             + (bs[i + 2] - 128) * 64 + (bs[i + 3] - 128)))
      ELSE [ok |-> FALSE, text |-> <<>>]

Decode(bs) == DecodeFrom(bs, 1, <<>>)

\* ------------------------------------------------------------------------
\* TerminalLineBuffer

\* line.replace("\r\n", "\n")
RECURSIVE ReplaceFrom(_, _, _)
ReplaceFrom(s, i, acc) ==
    IF i > Len(s) THEN acc
    ELSE IF s[i] = CR /\ i + 1 <= Len(s) /\ s[i + 1] = LF
      THEN ReplaceFrom(s, i + 2, Append(acc, LF))
      ELSE ReplaceFrom(s, i + 1, Append(acc, s[i]))

ReplaceCRLF(s) == ReplaceFrom(s, 1, <<>>)

\* first index >= i of s whose element is not in class (Len(s) + 1 if none)
RECURSIVE SkipWhile(_, _, _)
SkipWhile(s, i, class) ==
    IF i <= Len(s) /\ s[i] \in class THEN SkipWhile(s, i + 1, class) ELSE i

\* length of the match of
\*   \x1B(?:[@-Z\\-_]|\[[0-?]*[ -/]*[@-~])|\x0D
\* starting at index i of s, 0 when there is none.  The three classes of the
\* CSI branch are disjoint, so the greedy match is the only candidate.
MatchLen(s, i) ==
    IF s[i] = ESC /\ i + 1 <= Len(s) /\ s[i + 1] \in (64..90) \cup (92..95)
      THEN 2
    ELSE IF s[i] = ESC /\ i + 1 <= Len(s) /\ s[i + 1] = 91
      THEN LET k == SkipWhile(s, SkipWhile(s, i + 2, 48..63), 32..47)
           IN  IF k <= Len(s) /\ s[k] \in 64..126 THEN k - i + 1 ELSE 0
    ELSE IF s[i] = CR THEN 1
    ELSE 0

\* control_sequences_regex.sub("", line)
RECURSIVE SubFrom(_, _, _)
SubFrom(s, i, acc) ==
    IF i > Len(s) THEN acc
    ELSE LET m == MatchLen(s, i) IN
      IF m > 0 THEN SubFrom(s, i + m, acc)
               ELSE SubFrom(s, i + 1, Append(acc, s[i]))

Sub(s) == SubFrom(s, 1, <<>>)

\* feed(): the new last_value
FeedLastMut(last, value) == IF value = <<LF>> THEN Some(value) ELSE last
FeedLast(last, value) == Some(value)

\* feed(): the new line_buffer
FeedBuffer(buf, value) == buf \o value

\* is_complete(); it raises when nothing was ever fed
IsCompleteMut(last) == last # None /\ last[1] \in {<<LF>>, <<CR>>}
IsComplete(last) == last # None /\ last[1] = <<LF>>

\* get_line(): the buffer it leaves behind
ClearedBufferMut(buf) == buf
ClearedBuffer(buf) == <<>>

\* get_line(): the returned text
CleanLine(text) == Sub(ReplaceCRLF(text))

\* get_line(): ok is FALSE when decoding raises, and then the buffer is kept
GetLine(buf) ==
    LET d == Decode(buf) IN
    IF d.ok THEN [ok |-> TRUE, line |-> CleanLine(d.text),
                  buffer |-> ClearedBuffer(buf)]
            ELSE [ok |-> FALSE, line |-> <<>>, buffer |-> buf]

\* ------------------------------------------------------------------------
\* Logging

INFO == 20
WARNING == 30

\* str.rstrip(): the code points str.isspace() accepts
Whitespace == (9..13) \cup (28..32) \cup {133, 160, 5760} \cup (8192..8202)
              \cup {8232, 8233, 8239, 8287, 12288}

RECURSIVE RStrip(_)
RStrip(s) ==
    IF s # <<>> /\ s[Len(s)] \in Whitespace
      THEN RStrip(SubSeq(s, 1, Len(s) - 1))
      ELSE s

\* create_stdout_log_record(message, passthrough_prefix)
create_stdout_log_recordMut(message, prefix) ==
    [name |-> "root", levelno |-> INFO,
     msg |-> IF prefix # None THEN prefix[1] \o message ELSE message]
create_stdout_log_record(message, prefix) ==
    [name |-> "root", levelno |-> INFO,
     msg |-> IF prefix # None THEN prefix[1] \o RStrip(message)
                              ELSE RStrip(message)]

\* os.path.join(project_dir, "build", "%s.log" % name)
LogFile(name) == <<"project_dir", "build", name, ".log">>

\* the three handlers setup_logging(name) adds to the root logger, in order
SetupLoggingHandlers(name) ==
    << [kind |-> "StreamHandler", stream |-> "stdout", level |-> INFO,
        maximum_level |-> Some(WARNING), log_file |-> None],
       [kind |-> "StreamHandler", stream |-> "stderr", level |-> WARNING,
        maximum_level |-> None, log_file |-> None],
       [kind |-> "RotatingFileHandler", stream |-> "file", level |-> INFO,
        maximum_level |-> None, log_file |-> Some(LogFile(name))] >>

\* find_file_log_handler(): the first RotatingFileHandler, or None
RECURSIVE FindFrom(_, _)
FindFrom(hs, i) ==
    IF i > Len(hs) THEN None
    ELSE IF hs[i].kind = "RotatingFileHandler" THEN Some(hs[i])
    ELSE FindFrom(hs, i + 1)

find_file_log_handler(hs) == FindFrom(hs, 1)

\* ------------------------------------------------------------------------
\* execute(): inputs and environment of the model

PipeCap == 2       \* bytes the pipe holds before the child's write blocks

\* 'a', ' ', carriage return, newline and a byte that is never valid in UTF-8
EAlphabet == {97, 32, CR, LF, 255}

RECURSIVE SeqsUpTo(_, _)
SeqsUpTo(S, n) ==
    IF n = 0 THEN {<<>>}
    ELSE LET shorter == SeqsUpTo(S, n - 1) IN
         shorter \cup {Append(s, x) : s \in {t \in shorter : Len(t) = n - 1},
                                      x \in S}

Outputs == SeqsUpTo(EAlphabet, MaxOut)
ExitCodes == {0, 7}
Timeouts == {None, Some(0), Some(1)}
Prefixes == {None, Some(<<62>>)}

NoOutcome == [kind |-> "none", code |-> None, text |-> None]
Raise(kind, code, text) == [kind |-> kind, code |-> code, text |-> text]
Return(code, text) == [kind |-> "return", code |-> code, text |-> text]

\* the bytes the child has written so far
Written == SubSeq(program.out, 1, widx)

\* the call is between Popen and its return or raise
InCall == pc \in {"loop", "read", "flush", "tcheck", "wait", "result"}

\* process.poll(): the returncode it leaves in the Popen object
Poll(rc) == IF child = "running" THEN rc ELSE Some(program.code)

\* line 39, second operand: deadline is None or deadline < monotonic()
LoopDeadlineCond(d, t) == d = None \/ d[1] < t

\* line 55, first two operands: deadline is not None and deadline >= monotonic()
KillDeadlineCond(d, t) == d # None /\ d[1] >= t

\* line 59: wait(timeout) gives up once its endtime is reached
WaitExpiredMut(d, t) == d # None
WaitExpired(d, t) == d # None /\ t >= d[1]

\* line 62: exit_code != 0 (exit_code may be None)
FailedMut(rc, pt) == ~pt /\ rc # Some(0)
Failed(rc, pt) == rc # Some(0)

\* lines 64-66: the output is part of the message in non-passthrough mode only
FailureOutputMut(pt, text) == None
FailureOutput(pt, text) == IF pt THEN None ELSE Some(text)

\* line 52: if line
FlushEmitsMut(line) == TRUE
FlushEmits(line) == line # <<>>

\* line 42: sys.stdout.buffer.write(value)
EchoMut(t, value) == IF value = <<CR>> THEN t ELSE t \o value
Echo(t, value) == t \o value

\* process.stdout.read() once the child is gone: everything left in the pipe
ReadAllMut(p) == IF p = <<>> THEN p ELSE <<Head(p)>>
ReadAll(p) == p

logVars == <<handlers, root_level, setup_calls, logged, delivered>>
envVars == <<program, child, widx, pipe, now>>
tlbVars == <<line_buffer, last_value>>
argVars == <<passthrough, timeout, passthrough_prefix, file_log_handler,
             deadline>>
driverVars == <<input, pos, lines, fed, completions, lastOp, raised>>

\* ------------------------------------------------------------------------
\* execute(): the call, step by step

DriverIdle ==
    /\ input = <<>> /\ pos = 0 /\ lines = <<>> /\ fed = <<>>
    /\ completions = 0 /\ lastOp = "new" /\ raised = FALSE

\* before the call: setup_logging() has been called once, or never
Init ==
    /\ \E calls \in {<<>>, <<"test">>} :
         /\ setup_calls = calls
         /\ handlers = IF calls = <<>> THEN <<>>
                                       ELSE SetupLoggingHandlers("test")
         /\ root_level = IF calls = <<>> THEN WARNING ELSE INFO
    /\ logged = <<>> /\ delivered = {}
    /\ pc = "idle"
    /\ passthrough = FALSE /\ timeout = None /\ passthrough_prefix = None
    /\ file_log_handler = None /\ deadline = None /\ returncode = None
    /\ outcome = NoOutcome
    /\ line_buffer = <<>> /\ last_value = None
    /\ program = [out |-> <<>>, code |-> 0]
    /\ child = "none" /\ widx = 0 /\ pipe = <<>>
    /\ term = <<>> /\ records = <<>> /\ now = 0
    /\ DriverIdle

\* lines 21-38: Popen, and in passthrough mode the set-up of the loop; in
\* the other mode the start of process.wait(timeout), which fixes its endtime
Spawn ==
    /\ pc = "idle"
    /\ \E p \in BOOLEAN, t \in Timeouts, out \in Outputs, code \in ExitCodes :
       \E pre \in IF p THEN Prefixes ELSE {None} :
         /\ passthrough' = p
         /\ timeout' = t
         /\ passthrough_prefix' = pre
         /\ program' = [out |-> out, code |-> code]
         /\ file_log_handler' = IF p THEN find_file_log_handler(handlers)
                                     ELSE None
         /\ deadline' = IF t # None THEN Some(now + t[1]) ELSE None
         /\ pc' = IF p THEN "loop" ELSE "wait"
    /\ child' = "running" /\ widx' = 0 /\ pipe' = <<>>
    /\ returncode' = None
    /\ line_buffer' = <<>> /\ last_value' = None
    /\ UNCHANGED <<logVars, outcome, term, records, now>>
    /\ UNCHANGED driverVars

\* line 39: the loop condition
LoopTest ==
    /\ pc = "loop"
    /\ returncode' = Poll(returncode)
    /\ pc' = IF child = "running" /\ LoopDeadlineCond(deadline, now)
               THEN "read" ELSE "flush"
    /\ UNCHANGED <<logVars, outcome, term, records>>
    /\ UNCHANGED <<envVars, tlbVars, argVars, driverVars>>

\* lines 41-48: one blocking read(1), the echo, and the line buffer.  The
\* read returns a byte when the pipe holds one, b"" at end of file (the
\* child is gone and the pipe is empty), and blocks otherwise.
ReadByte ==
    /\ pc = "read"
    /\ pipe # <<>> \/ child # "running"
    /\ LET value == IF pipe # <<>> THEN <<Head(pipe)>> ELSE <<>>
           last  == FeedLast(last_value, value)
           buf   == FeedBuffer(line_buffer, value)
           g     == GetLine(buf)
       IN
       /\ pipe' = IF pipe # <<>> THEN Tail(pipe) ELSE pipe
       /\ term' = Echo(term, value)
       /\ IF file_log_handler = None
            THEN /\ UNCHANGED <<tlbVars, records, outcome>>
                 /\ pc' = "loop"
          ELSE IF ~IsComplete(last)
            THEN /\ last_value' = last
                 /\ line_buffer' = buf
                 /\ UNCHANGED <<records, outcome>>
                 /\ pc' = "loop"
          ELSE IF g.ok
            THEN /\ last_value' = last
                 /\ line_buffer' = g.buffer
                 /\ records' = Append(records,
                       create_stdout_log_record(g.line, passthrough_prefix))
                 /\ UNCHANGED outcome
                 /\ pc' = "loop"
            ELSE /\ last_value' = last
                 /\ line_buffer' = g.buffer
                 /\ UNCHANGED records
                 /\ outcome' = Raise("UnicodeDecodeError", None, None)
                 /\ pc' = "done"
    /\ UNCHANGED <<logVars, returncode, program, child, widx, now>>
    /\ UNCHANGED <<argVars, driverVars>>

\* lines 50-53: the rest of the buffer becomes one record when it is not empty
Flush ==
    /\ pc = "flush"
    /\ LET g == GetLine(line_buffer) IN
       IF file_log_handler = None
         THEN /\ UNCHANGED <<line_buffer, records, outcome>>
              /\ pc' = "tcheck"
       ELSE IF g.ok
         THEN /\ line_buffer' = g.buffer
              /\ records' = IF FlushEmits(g.line)
                   THEN Append(records,
                       create_stdout_log_record(g.line, passthrough_prefix))
                   ELSE records
              /\ UNCHANGED outcome
              /\ pc' = "tcheck"
         ELSE /\ UNCHANGED <<line_buffer, records>>
              /\ outcome' = Raise("UnicodeDecodeError", None, None)
              /\ pc' = "done"
    /\ UNCHANGED <<logVars, returncode, last_value, term>>
    /\ UNCHANGED <<envVars, argVars, driverVars>>

\* lines 55-57: kill and raise TimeoutExpired, or go on to the exit code
TimeoutCheck ==
    /\ pc = "tcheck"
    /\ IF KillDeadlineCond(deadline, now)
         THEN IF child = "running"
                THEN /\ child' = "killed"
                     /\ outcome' = Raise("TimeoutExpired", None, None)
                     /\ pc' = "done"
                     /\ UNCHANGED returncode
                ELSE /\ returncode' = Poll(returncode)
                     /\ pc' = "result"
                     /\ UNCHANGED <<child, outcome>>
         ELSE /\ pc' = "result"
              /\ UNCHANGED <<child, outcome, returncode>>
    /\ UNCHANGED <<logVars, term, records, program, widx, pipe, now>>
    /\ UNCHANGED <<tlbVars, argVars, driverVars>>

\* line 59: process.wait(timeout) returns once the child is gone, and raises
\* TimeoutExpired when its endtime is reached with the child still running
Wait ==
    /\ pc = "wait"
    /\ IF child # "running"
         THEN /\ returncode' = Poll(returncode)
              /\ pc' = "result"
              /\ UNCHANGED outcome
         ELSE /\ WaitExpired(deadline, now)
              /\ outcome' = Raise("TimeoutExpired", None, None)
              /\ pc' = "done"
              /\ UNCHANGED returncode
    /\ UNCHANGED <<logVars, term, records>>
    /\ UNCHANGED <<envVars, tlbVars, argVars, driverVars>>

\* lines 60-73: ProcessException, or the value returned.  In non-passthrough
\* mode both branches read the pipe to its end and decode it, which may raise.
Result ==
    /\ pc = "result"
    /\ LET d == Decode(ReadAll(pipe)) IN
       IF passthrough
         THEN /\ outcome' = IF Failed(returncode, passthrough)
                   THEN Raise("ProcessException", returncode,
                              FailureOutput(passthrough, <<>>))
                   ELSE Return(returncode, None)
              /\ UNCHANGED pipe
       ELSE IF ~d.ok
         THEN /\ outcome' = Raise("UnicodeDecodeError", None, None)
              /\ pipe' = <<>>
       ELSE   /\ outcome' = IF Failed(returncode, passthrough)
                   THEN Raise("ProcessException", returncode,
                              FailureOutput(passthrough, d.text))
                   ELSE Return(None, Some(d.text))
              /\ pipe' = <<>>
    /\ pc' = "done"
    /\ UNCHANGED <<logVars, returncode, term, records, program, child, widx,
                   now>>
    /\ UNCHANGED <<tlbVars, argVars, driverVars>>

\* the child writes its next byte; the write blocks while the pipe is full
ChildWrite ==
    /\ child = "running"
    /\ widx < Len(program.out)
    /\ Len(pipe) < PipeCap
    /\ pipe' = Append(pipe, program.out[widx + 1])
    /\ widx' = widx + 1
    /\ UNCHANGED <<logVars, pc, returncode, outcome, term, records, program,
                   child, now>>
    /\ UNCHANGED <<tlbVars, argVars, driverVars>>

\* the child exits after its last write
ChildExit ==
    /\ child = "running"
    /\ widx = Len(program.out)
    /\ child' = "exited"
    /\ UNCHANGED <<logVars, pc, returncode, outcome, term, records, program,
                   widx, pipe, now>>
    /\ UNCHANGED <<tlbVars, argVars, driverVars>>

\* the clock advances; only the instants during the call are observed
Tick ==
    /\ InCall
    /\ now < MaxTime
    /\ now' = now + 1
    /\ UNCHANGED <<logVars, pc, returncode, outcome, term, records, program,
                   child, widx, pipe>>
    /\ UNCHANGED <<tlbVars, argVars, driverVars>>

Next ==
    \/ Spawn
    \/ LoopTest
    \/ ReadByte
    \/ Flush
    \/ TimeoutCheck
    \/ Wait
    \/ Result
    \/ ChildWrite
    \/ ChildExit
    \/ Tick

Spec == Init /\ [][Next]_vars

\* ------------------------------------------------------------------------
\* The line reassembler driven as execute() drives it (lines 45-47 and 51):
\* feed one byte, get_line() when is_complete(), get_line() once at the end

\* ESC [ 0 m M, carriage return, newline, and the two bytes of U+00E9
TAlphabet == {ESC, 91, 48, 109, 77, CR, LF, 195, 169}

Example1 == <<97, 98, 99, LF>>
Example2 == <<97, 98, ESC, 91, 51, 49, 109, 114, 101, 100, ESC, 91, 48, 109,
              LF>>

TInputs == SeqsUpTo(TAlphabet, MaxLen) \cup {Example1, Example2}

ExecuteIdle ==
    /\ handlers = <<>> /\ root_level = WARNING /\ setup_calls = <<>>
    /\ logged = <<>> /\ delivered = {}
    /\ passthrough = FALSE /\ timeout = None /\ passthrough_prefix = None
    /\ file_log_handler = None /\ deadline = None /\ returncode = None
    /\ outcome = NoOutcome
    /\ program = [out |-> <<>>, code |-> 0]
    /\ child = "none" /\ widx = 0 /\ pipe = <<>>
    /\ term = <<>> /\ records = <<>> /\ now = 0

execVars == <<logVars, passthrough, timeout, passthrough_prefix,
              file_log_handler, deadline, returncode, outcome, program,
              child, widx, pipe, term, records, now>>

LinesInit ==
    /\ ExecuteIdle
    /\ pc = "t_feed"
    /\ line_buffer = <<>> /\ last_value = None
    /\ input \in TInputs
    /\ pos = 0 /\ lines = <<>> /\ fed = <<>>
    /\ completions = 0 /\ lastOp = "new" /\ raised = FALSE

\* lines 45-46: buffer.feed(value); buffer.is_complete()
DriveFeed ==
    /\ pc = "t_feed"
    /\ pos < Len(input)
    /\ LET value == <<input[pos + 1]>>
           last  == FeedLast(last_value, value)
       IN
       /\ last_value' = last
       /\ line_buffer' = FeedBuffer(line_buffer, value)
       /\ fed' = Append(fed, value)
       /\ completions' = completions + (IF IsComplete(last) THEN 1 ELSE 0)
       /\ pc' = IF IsComplete(last) THEN "t_get" ELSE "t_feed"
    /\ pos' = pos + 1
    /\ lastOp' = "feed"
    /\ UNCHANGED <<input, lines, raised>>
    /\ UNCHANGED execVars

\* get_line(), and where the driver goes next
DriveGet(next) ==
    /\ LET g == GetLine(line_buffer) IN
       /\ line_buffer' = g.buffer
       /\ lines' = IF g.ok THEN Append(lines, g.line) ELSE lines
       /\ raised' = ~g.ok
       /\ pc' = IF g.ok THEN next ELSE "t_end"
    /\ lastOp' = "get_line"
    /\ UNCHANGED <<last_value, input, pos, fed, completions>>
    /\ UNCHANGED execVars

\* line 47: line = buffer.get_line() after a completed line
DriveGetLine == pc = "t_get" /\ DriveGet("t_feed")

\* line 51: line = buffer.get_line() at the end of the stream
DriveFlush == pc = "t_feed" /\ pos = Len(input) /\ DriveGet("t_end")

LinesNext ==
    \/ DriveFeed
    \/ DriveGetLine
    \/ DriveFlush

SpecLines == LinesInit /\ [][LinesNext]_vars

\* ------------------------------------------------------------------------
\* The line reassembler under any sequence of feed() and get_line() calls

\* b"", newline, 'a', and the first byte of a two-byte character
BValues == {<<>>, <<LF>>, <<97>>, <<195>>}

BufInit ==
    /\ ExecuteIdle
    /\ pc = "b_call"
    /\ line_buffer = <<>> /\ last_value = None
    /\ input = <<>>
    /\ pos = 0 /\ lines = <<>> /\ fed = <<>>
    /\ completions = 0 /\ lastOp = "new" /\ raised = FALSE

\* feed(value)
CallFeed ==
    /\ pc = "b_call"
    /\ pos < MaxOps
    /\ \E value \in BValues :
         /\ last_value' = FeedLast(last_value, value)
         /\ line_buffer' = FeedBuffer(line_buffer, value)
         /\ fed' = Append(fed, value)
         /\ completions' = completions
                + (IF IsComplete(FeedLast(last_value, value)) THEN 1 ELSE 0)
    /\ pos' = pos + 1
    /\ lastOp' = "feed"
    /\ UNCHANGED <<pc, input, lines, raised>>
    /\ UNCHANGED execVars

\* get_line()
CallGetLine ==
    /\ pc = "b_call"
    /\ pos < MaxOps
    /\ LET g == GetLine(line_buffer) IN
       /\ line_buffer' = g.buffer
       /\ lines' = IF g.ok THEN Append(lines, g.line) ELSE lines
       /\ raised' = ~g.ok
    /\ pos' = pos + 1
    /\ lastOp' = "get_line"
    /\ UNCHANGED <<pc, last_value, input, fed, completions>>
    /\ UNCHANGED execVars

BufNext ==
    \/ CallFeed
    \/ CallGetLine

SpecBuf == BufInit /\ [][BufNext]_vars

\* ------------------------------------------------------------------------
\* Logging: setup_logging() calls and records logged through the root logger

MaxSetup == 2      \* most setup_logging() calls
MaxLog == 2        \* most records logged

Names == {"x", "y"}

\* DEBUG, INFO, a level between INFO and WARNING, WARNING, ERROR
Levels == {10, INFO, 25, WARNING, 40}

\* the string get_my_log_file() returns when it finds no file handler
NotFound == <<"can't find it">>

\* get_my_log_file()
get_my_log_file(hs) ==
    LET h == find_file_log_handler(hs) IN
    IF h # None /\ h[1].log_file # None THEN h[1].log_file[1] ELSE NotFound

\* LessThanLevelFilter.filter(record)
LessThanLevelFilterMut(maximum_level, levelno) == levelno <= maximum_level
LessThanLevelFilter(maximum_level, levelno) == levelno < maximum_level

\* the root logger passes a record of level levelno to handler h, and h
\* emits it: the record is at or above the handler's level and passes the
\* handler's filter
HandlerEmits(h, levelno) ==
    /\ levelno >= h.level
    /\ h.maximum_level # None
         => LessThanLevelFilter(h.maximum_level[1], levelno)

\* the handlers of hs that emit a record of level levelno logged through a
\* root logger of level level
Emitters(hs, level, levelno) ==
    {i \in 1..Len(hs) : levelno >= level /\ HandlerEmits(hs[i], levelno)}

\* the root logger after setup_logging(name)
NewHandlers(hs, name) == hs \o SetupLoggingHandlers(name)

LogInit ==
    /\ ExecuteIdle
    /\ pc = "l_call"
    /\ line_buffer = <<>> /\ last_value = None
    /\ DriverIdle

\* setup_logging(name)
SetupLogging ==
    /\ pc = "l_call"
    /\ Len(setup_calls) < MaxSetup
    /\ \E name \in Names :
         /\ handlers' = NewHandlers(handlers, name)
         /\ setup_calls' = Append(setup_calls, name)
    /\ root_level' = INFO
    /\ UNCHANGED <<logged, delivered, pc, passthrough, timeout,
                   passthrough_prefix, file_log_handler, deadline,
                   returncode, outcome, term, records>>
    /\ UNCHANGED <<envVars, tlbVars, driverVars>>

\* a record logged through the root logger once logging is set up
LogRecord ==
    /\ pc = "l_call"
    /\ setup_calls # <<>>
    /\ Len(logged) < MaxLog
    /\ \E levelno \in Levels :
         /\ logged' = Append(logged, levelno)
         /\ delivered' = delivered \cup
              {[rec |-> Len(logged) + 1, handler |-> i] :
                   i \in Emitters(handlers, root_level, levelno)}
    /\ UNCHANGED <<handlers, root_level, setup_calls, pc, passthrough,
                   timeout, passthrough_prefix, file_log_handler, deadline,
                   returncode, outcome, term, records>>
    /\ UNCHANGED <<envVars, tlbVars, driverVars>>

LogNext ==
    \/ SetupLogging
    \/ LogRecord

SpecLog == LogInit /\ [][LogNext]_vars

\* ------------------------------------------------------------------------
\* Properties of execute()

TimedOut == outcome.kind = "TimeoutExpired"
DecodeFailed == outcome.kind = "UnicodeDecodeError"

\* C1: in passthrough mode with a timeout, when the check that follows the
\* loop finds the deadline reached and the child still running, the child is
\* killed and the call fails with the timeout failure, in that one step.
C1_KilledAtDeadline ==
    [][(passthrough /\ pc = "tcheck" /\ pc' # "tcheck"
          /\ deadline # None /\ now >= deadline[1] /\ child = "running")
          => (child' = "killed" /\ TimedOut' /\ pc' = "done")]_vars

\* C2: in passthrough mode the child is killed, and the timeout failure
\* raised, only at a moment when the deadline has been reached.
C2_NoKillBeforeDeadline ==
    [][(passthrough /\ (child' = "killed" \/ TimedOut') /\ ~TimedOut)
          => (deadline # None /\ now >= deadline[1])]_vars

C4_ReadOnlyBeforeDeadline ==
    [][(pc = "loop" /\ pc' # "loop")
          => (pc' = "read" <=>
                (child = "running"
                   /\ (deadline = None \/ now < deadline[1])))]_vars

\* C5 as stated: in non-passthrough mode every non-zero exit code n fails
\* the call with a ProcessException carrying n and the child's whole output.
C5_NonZeroAlwaysProcessException ==
    (pc = "done" /\ ~passthrough /\ returncode \notin {None, Some(0)})
        => outcome = Raise("ProcessException", returncode,
                           Some(Decode(program.out).text))

\* C5 amended: the same, for a child whose output is valid UTF-8.
C5_NonZeroProcessException ==
    (pc = "done" /\ ~passthrough /\ returncode \notin {None, Some(0)}
        /\ Decode(program.out).ok)
        => outcome = Raise("ProcessException", returncode,
                           Some(Decode(program.out).text))

C5_Witness ==
    /\ pc = "done" /\ ~passthrough /\ returncode = Some(7)
    /\ outcome.kind = "ProcessException" /\ Len(outcome.text[1]) = 2

\* C6 as stated: in non-passthrough mode every child that exits with 0 makes
\* the call return the text of everything the child wrote.
C6_ZeroAlwaysReturnsOutput ==
    (pc = "done" /\ ~passthrough /\ returncode = Some(0))
        => outcome = Return(None, Some(Decode(program.out).text))

\* C6 amended: the same, for a child whose output is valid UTF-8.
C6_ZeroReturnsOutput ==
    (pc = "done" /\ ~passthrough /\ returncode = Some(0)
        /\ Decode(program.out).ok)
        => outcome = Return(None, Some(Decode(program.out).text))

C6_Witness ==
    /\ pc = "done" /\ ~passthrough /\ returncode = Some(0)
    /\ outcome.kind = "return" /\ Len(outcome.text[1]) = 2

\* C7: in non-passthrough mode wait() fails with the timeout failure exactly
\* when its endtime is reached with the child running, and the child is
\* still running, never killed, when the failure reaches the caller.
C7_TimeoutLeavesChildRunning ==
    /\ [](~passthrough => child # "killed")
    /\ [][(pc = "wait" /\ pc' # "wait" /\ child = "running")
             => /\ TimedOut' /\ pc' = "done"
                /\ child' = "running"
                /\ timeout # None /\ now >= deadline[1]]_vars
    /\ [][(~passthrough /\ TimedOut' /\ ~TimedOut)
             => (pc = "wait" /\ child' = "running")]_vars

C7_Witness ==
    pc = "done" /\ ~passthrough /\ TimedOut /\ child = "running"

\* ------------------------------------------------------------------------
\* Properties of TerminalLineBuffer

RECURSIVE Flatten(_)
Flatten(ls) == IF ls = <<>> THEN <<>> ELSE Head(ls) \o Flatten(Tail(ls))

\* the returned lines, a newline put back after each one but the last
RECURSIVE Reinserted(_)
Reinserted(ls) ==
    IF ls = <<>> THEN <<>>
    ELSE IF Len(ls) = 1 THEN ls[1]
    ELSE ls[1] \o <<LF>> \o Reinserted(Tail(ls))

\* the only newline of bs is its last byte
OnlyLastNewline(bs) ==
    /\ bs # <<>>
    /\ \A i \in 1..Len(bs) : (bs[i] = LF) <=> (i = Len(bs))

Front(bs) == SubSeq(bs, 1, Len(bs) - 1)

\* C8 as stated, on the inputs that decode: the returned lines, with a
\* newline put back after each completed line, make up the cleaned input.
C8_ReinsertedLinesAreCleanInput ==
    (pc = "t_end" /\ Decode(input).ok)
        => (~raised /\ Reinserted(lines) = CleanLine(Decode(input).text))

\* C8 amended: for every input that is valid UTF-8, the returned lines,
\* which keep their newline, concatenate to the cleaned input.
C8_LinesAreCleanInput ==
    (pc = "t_end" /\ Decode(input).ok)
        => (~raised /\ Flatten(lines) = CleanLine(Decode(input).text))

C8_Witness ==
    /\ pc = "t_end" /\ ~raised /\ Len(lines) >= 3
    /\ Len(Flatten(lines)) < Len(Decode(input).text)
    /\ \E i \in 1..Len(input) : input[i] = ESC

\* C9 as stated: an input whose only newline is its last byte completes
\* exactly once and get_line() returns the cleaned text before the newline.
C9_LineWithoutNewline ==
    (OnlyLastNewline(input) /\ Decode(input).ok)
        => /\ completions = (IF pos = Len(input) THEN 1 ELSE 0)
           /\ (pc = "t_end" =>
                 /\ lines[1] = CleanLine(Decode(Front(input)).text)
                 /\ (input = Example1 => lines[1] = <<97, 98, 99>>)
                 /\ (input = Example2 => lines[1] = <<97, 98, 114, 101, 100>>))

\* C9 amended: an input whose only newline is its last byte completes
\* exactly once, after the last byte, and for valid UTF-8 get_line() returns
\* the cleaned text before the newline followed by the newline.
C9_LineWithNewline ==
    OnlyLastNewline(input)
        => /\ completions = (IF pos = Len(input) THEN 1 ELSE 0)
           /\ (pc = "t_get" => pos = Len(input))
           /\ ((pc = "t_end" /\ Decode(input).ok) =>
                 /\ lines = << CleanLine(Decode(Front(input)).text) \o <<LF>>,
                               <<>> >>
                 /\ (input = Example1 => lines[1] = <<97, 98, 99, LF>>)
                 /\ (input = Example2
                       => lines[1] = <<97, 98, 114, 101, 100, LF>>))

C9_Witness ==
    pc = "t_end" /\ input = Example2 /\ completions = 1 /\ Len(lines) = 2

\* C10 as stated: is_complete() is true only when the last operation was a
\* feed of the newline byte, and false after a feed of anything else.
C10_CompleteOnlyRightAfterNewline ==
    /\ IsComplete(last_value) => (lastOp = "feed" /\ fed[Len(fed)] = <<LF>>)
    /\ (lastOp = "feed" /\ fed[Len(fed)] # <<LF>>) => ~IsComplete(last_value)

\* C10 amended: is_complete() is true exactly when the most recently fed
\* value is the newline byte, whether or not get_line() was called since.
C10_CompleteIffLastFedNewline ==
    IsComplete(last_value) <=> (fed # <<>> /\ fed[Len(fed)] = <<LF>>)

C10_Witness ==
    /\ lastOp = "get_line" /\ IsComplete(last_value)
    /\ Len(fed) >= 2 /\ fed[1] # <<LF>>

\* ------------------------------------------------------------------------
\* Properties of the passthrough path of execute()

\* bs cut after each newline: the complete lines, newline included, and the
\* bytes after the last newline
RECURSIVE SplitFrom(_, _, _, _)
SplitFrom(bs, i, cur, acc) ==
    IF i > Len(bs) THEN [complete |-> acc, rest |-> cur]
    ELSE IF bs[i] = LF
      THEN SplitFrom(bs, i + 1, <<>>, Append(acc, Append(cur, LF)))
      ELSE SplitFrom(bs, i + 1, Append(cur, bs[i]), acc)

SplitLines(bs) == SplitFrom(bs, 1, <<>>, <<>>)

\* the record a line of bytes is to produce: the prefix, then the cleaned
\* text without its trailing whitespace
ExpectedRecord(line) ==
    [name |-> "root", levelno |-> INFO,
     msg |-> (IF passthrough_prefix # None THEN passthrough_prefix[1]
                                            ELSE <<>>)
             \o RStrip(CleanLine(Decode(line).text))]

ExpectedRecords(ls) == [i \in 1..Len(ls) |-> ExpectedRecord(ls[i])]

\* the complete lines among the bytes read so far that are not valid UTF-8
BadLines == {i \in 1..Len(SplitLines(term).complete) :
                 ~Decode(SplitLines(term).complete[i]).ok}

InLoop == pc \in {"loop", "read", "flush"}

\* C13 as stated: with a file handler every completed line has produced
\* exactly one record, in the order read, made of the prefix and the cleaned
\* line without trailing whitespace, and never before its last byte reached
\* the terminal; with no file handler there is no record, and every byte
\* read is on the terminal.
C13_RecordPerLine ==
    (passthrough /\ pc # "idle") =>
      LET ls == SplitLines(term).complete IN
      /\ term \o pipe = Written
      /\ IF file_log_handler = None
           THEN records = <<>>
           ELSE /\ Len(records) >= Len(ls)
                /\ InLoop => Len(records) = Len(ls)
                /\ SubSeq(records, 1, Len(ls)) = ExpectedRecords(ls)

\* C13 amended: the same for the completed lines that are valid UTF-8; a
\* completed line that is not ends the call with the decode error, and
\* produces no record.
C13_RecordPerDecodedLine ==
    (passthrough /\ pc # "idle") =>
      LET ls == SplitLines(term).complete IN
      /\ term \o pipe = Written
      /\ IF file_log_handler = None
           THEN records = <<>>
         ELSE IF BadLines = {}
           THEN /\ Len(records) >= Len(ls)
                /\ InLoop => Len(records) = Len(ls)
                /\ SubSeq(records, 1, Len(ls)) = ExpectedRecords(ls)
           ELSE /\ BadLines = {Len(ls)}
                /\ pc = "done" /\ DecodeFailed
                /\ records = ExpectedRecords(SubSeq(ls, 1, Len(ls) - 1))

C13_Witness ==
    /\ passthrough /\ pc = "loop" /\ file_log_handler # None
    /\ passthrough_prefix # None
    /\ term = <<CR, 97, LF>>
    /\ records = <<[name |-> "root", levelno |-> INFO, msg |-> <<62, 97>>]>>

\* the record the flush after the loop is to produce from the bytes rest: one
\* record when the cleaned text is not empty, none otherwise
FinalRecords(rest) ==
    IF CleanLine(Decode(rest).text) # <<>> THEN <<ExpectedRecord(rest)>>
                                            ELSE <<>>

\* the call is past the flush that follows the loop
PastFlush ==
    /\ passthrough /\ file_log_handler # None
    /\ pc \in {"tcheck", "result", "done"}
    /\ BadLines = {}

\* records are only ever added, and the timeout failure is raised by the
\* step that follows the flush
FlushBeforeTimeout ==
    /\ [][/\ Len(records') >= Len(records)
          /\ SubSeq(records', 1, Len(records)) = records]_vars
    /\ [][(passthrough /\ TimedOut' /\ ~TimedOut) => pc = "tcheck"]_vars

\* C14 as stated: once the loop is left, the bytes read after the last
\* newline have been emitted as one final record when the remaining partial
\* line was not empty and as none when it was; this is done before a timeout
\* failure is raised, and no record is ever taken back.
C14_FinalRecordFlushed ==
    /\ [](PastFlush =>
            /\ ~DecodeFailed
            /\ line_buffer = <<>>
            /\ records = ExpectedRecords(SplitLines(term).complete)
                           \o FinalRecords(SplitLines(term).rest))
    /\ FlushBeforeTimeout

\* C14 amended: the same when the bytes read after the last newline are
\* valid UTF-8, the partial line being the text left after control sequences
\* and carriage returns are removed; when they are not valid UTF-8 the flush
\* raises the decode error, emits no record and keeps the buffer.
C14_FinalRecordFlushedIfDecodes ==
    /\ [](PastFlush =>
            IF Decode(SplitLines(term).rest).ok
              THEN /\ ~DecodeFailed
                   /\ line_buffer = <<>>
                   /\ records = ExpectedRecords(SplitLines(term).complete)
                                  \o FinalRecords(SplitLines(term).rest)
              ELSE /\ pc = "done" /\ DecodeFailed
                   /\ line_buffer = SplitLines(term).rest
                   /\ records = ExpectedRecords(SplitLines(term).complete))
    /\ FlushBeforeTimeout

C14_Witness ==
    /\ PastFlush /\ pc = "done" /\ passthrough_prefix # None
    /\ term = <<LF, CR, 97>>
    /\ Len(records) = 2
    /\ records[2].msg = <<62, 97>>

IsPrefix(a, b) == Len(a) <= Len(b) /\ SubSeq(b, 1, Len(a)) = a

\* C15: in passthrough mode the bytes on the terminal are always a prefix of
\* the bytes the child has written, unmodified and in order, with or without
\* a file handler.
C15_TerminalIsRawPrefix ==
    passthrough => IsPrefix(term, Written)

C15_Witness ==
    /\ passthrough /\ file_log_handler # None
    /\ term = <<97, CR, LF>>
    /\ records = <<[name |-> "root", levelno |-> INFO, msg |-> <<97>>]>>

\* C17: in passthrough mode without a timeout, when the call has returned or
\* raised, every byte the child wrote is on the terminal, none is left in
\* the pipe, and with a file handler the records hold all of it.
C17_AllOutputStreamed ==
    (pc = "done" /\ passthrough /\ timeout = None /\ ~DecodeFailed) =>
      /\ term = program.out
      /\ pipe = <<>>
      /\ file_log_handler # None =>
           records = ExpectedRecords(SplitLines(program.out).complete)
                       \o FinalRecords(SplitLines(program.out).rest)

\* C18: in non-passthrough mode without a timeout the caller never waits for
\* the exit of a child that is blocked writing to a full pipe.
C18_NoWaitOnFullPipe ==
    ~(/\ pc = "wait" /\ ~passthrough /\ timeout = None
      /\ child = "running"
      /\ widx < Len(program.out)
      /\ Len(pipe) >= PipeCap)

\* ------------------------------------------------------------------------
\* Properties of the logging set-up

RotatingFileHandlers(hs) ==
    {i \in 1..Len(hs) : hs[i].kind = "RotatingFileHandler"}

\* C11: after any sequence of setup_logging() calls the root logger holds at
\* most one rotating-file handler.
C11_AtMostOneFileHandler ==
    Cardinality(RotatingFileHandlers(handlers)) <= 1

\* C12: after setup_logging(x), whatever calls came before, the handler
\* find_file_log_handler() returns records build/x.log and get_my_log_file()
\* returns that path; with no call there is no handler and get_my_log_file()
\* returns the not-found string.
C12_FindsLastSetup ==
    IF setup_calls = <<>>
      THEN /\ find_file_log_handler(handlers) = None
           /\ get_my_log_file(handlers) = NotFound
      ELSE /\ find_file_log_handler(handlers) # None
           /\ find_file_log_handler(handlers)[1].log_file
                = Some(LogFile(setup_calls[Len(setup_calls)]))
           /\ get_my_log_file(handlers)
                = LogFile(setup_calls[Len(setup_calls)])

\* record n was emitted by a handler writing to stream
Reached(n, stream) ==
    \E d \in delivered : d.rec = n /\ handlers[d.handler].stream = stream

\* C16: after one setup_logging() call, a record logged through the root
\* logger reaches the standard-out handler exactly when its level is at
\* least INFO and below WARNING, the standard-error handler exactly when its
\* level is at least WARNING, and the file handler exactly when its level is
\* at least INFO; no record reaches both console handlers.
C16_LevelRouting ==
    Len(setup_calls) = 1 =>
      \A n \in 1..Len(logged) :
        /\ Reached(n, "stdout") <=> (logged[n] >= INFO /\ logged[n] < WARNING)
        /\ Reached(n, "stderr") <=> logged[n] >= WARNING
        /\ Reached(n, "file") <=> logged[n] >= INFO
        /\ ~(Reached(n, "stdout") /\ Reached(n, "stderr"))

C16_Witness ==
    /\ Len(setup_calls) = 1 /\ Len(logged) = 2
    /\ logged[1] = WARNING /\ Reached(1, "stderr") /\ Reached(1, "file")
    /\ logged[2] = INFO /\ Reached(2, "stdout") /\ Reached(2, "file")

\* ------------------------------------------------------------------------
\* Properties of the cleaned lines

\* C19: a line returned by get_line() holds no carriage return and no
\* control sequence, and cleaning it again leaves it unchanged.
C19_ReturnedLinesAreClean ==
    \A i \in 1..Len(lines) :
      /\ \A j \in 1..Len(lines[i]) :
           lines[i][j] # CR /\ MatchLen(lines[i], j) = 0
      /\ CleanLine(lines[i]) = lines[i]

====
